---- MODULE Spec2Model ----
(***************************************************************************)
(* Online-course backend (Express + MySQL): authentication middleware,     *)
(* purchase ledger, refund requests, drip-content release.                 *)
(*                                                                         *)
(* Every handler is an async function: it runs without interruption up to  *)
(* its next `await`, so each action below is "the awaited call completes   *)
(* and the handler runs on to its next await (or to its response)".        *)
(* Requests of different clients interleave at these points only.          *)
(* The relational store executes each statement atomically and enforces    *)
(* the keys declared in initializeDatabase; statements are assumed not to  *)
(* fail for reasons other than those keys.                                 *)
(* Time is counted in ticks, TicksPerDay ticks to the day.                 *)
(* MaxCreated bounds the rows the admin routes add, MaxAssets the files    *)
(* the object storage accepts, MaxWritten the rows written in SpecCreate.  *)
(***************************************************************************)
EXTENDS Integers, Sequences, FiniteSets, Bags, TLC

\* ---------------------------------------------------------------- bounds
TicksPerDay == 2
MaxDays == 8
MaxNow == MaxDays * TicksPerDay
RaceTicks == 2
MaxCreated == 2
MaxAssets == 1
MaxWritten == 3

\* ------------------------------------------------------ program constants
RefundWindowDays == 7
UserTokenDays == 7
AdminTokenDays == 1

Slots == {"r1", "r2"}

VARIABLES
    now,             \* the wall clock (new Date(), CURRENT_TIMESTAMP)
    apiInstance,     \* brevo.js: TRUE iff the mail client was configured
    Admins, Users, Courses, Modules, Lessons,
    Purchases, RefundRequests,      \* tables, row id = position
    assets,          \* files stored by the object storage since startup
    outbox,          \* notification mails accepted by the mail service
    reqs             \* the requests in flight, one per slot

vars == <<now, apiInstance, Admins, Users, Courses, Modules, Lessons,
          Purchases, RefundRequests, assets, outbox, reqs>>

tables == <<Admins, Users, Courses, Modules, Lessons, Purchases, RefundRequests>>

\* ---------------------------------------------------------------- helpers
Abs(x) == IF x < 0 THEN -x ELSE x

\* Math.ceil(a / b) for a >= 0, b > 0
Ceil(a, b) == IF a % b = 0 THEN a \div b ELSE (a \div b) + 1

Ids(table) == 1..Len(table)

\* bcrypt.hash / bcrypt.compare
Hash(pw) == <<"bcrypt", pw>>
Compare(pw, h) == h = <<"bcrypt", pw>>

\* JS truthiness of a body field (!field): undefined, null, 0 and "" are all
\* falsy; 0 stands for an absent id, "" for an absent text.
FalsyId(v) == v = 0
FalsyText(v) == v = ""

\* ... WHERE user_id = ? AND course_id = ?
RowsOf(table, u, c) ==
    {i \in Ids(table) : table[i].user_id = u /\ table[i].course_id = c}

PurchaseRows(u, c) == RowsOf(Purchases, u, c)

\* ... FROM RefundRequests WHERE user_id = ? AND course_id = ? AND status = 'PENDENTE'
PendingIn(table, u, c) ==
    {i \in RowsOf(table, u, c) : table[i].status = "PENDENTE"}

PendingRows(u, c) == PendingIn(RefundRequests, u, c)

\* SQL NULL / JS null; also the empty text of a field kept as a tuple
Null == <<>>

\* a body field that was not sent (=== undefined), and an absent req.file
Undefined == "undefined"
NoFile == ""

\* parseInt / parseFloat of a decimal digit
ParseInt(text) == CHOOSE n \in 0..9 : ToString(n) = text
ParseFloat(text) == ParseInt(text)

\* JSON.parse accepts the text
ValidJson(text) == text # <<>> /\ Head(text) = "json"

\* req.file.mimetype.startsWith('video/')
IsVideo(file) == file \in {"video/mp4", "video/webm"}

\* JSON.stringify(JSON.parse(text)) as stored in Lessons.links, and
\* JSON.parse of the stored text
JsonStringify(v) == <<"json">> \o v
JsonParse(text) == Tail(text)

\* the links of lesson l, as a parsed value
LinksOf(l) == <<"href", ToString(l)>>

\* releaseDate.setDate(purchaseDate.getDate() + dripDays): the same time of
\* day, dripDays calendar days later (days of equal length)
AddDays(date, days) == date + days * TicksPerDay

\* date.toISOString().split('T')[0]: the calendar day of an instant
IsoDate(date) == date \div TicksPerDay

\* ------------------------------------------------------------------ tokens
NoToken == [present |-> FALSE, sig |-> FALSE, id |-> 0, type |-> "user", exp |-> 0]

\* jwt.sign(payload, jwtSecret, {expiresIn})
Sign(id, type, iat, days) ==
    [present |-> TRUE, sig |-> TRUE, id |-> id, type |-> type,
     exp |-> iat + days * TicksPerDay]

\* the instants at which the tokens in circulation were signed: just now, at
\* startup, and UserTokenDays before now by an earlier run of the server
\* (jwtSecret and the tables outlive a restart)
IssueTimes == {now - UserTokenDays * TicksPerDay, 0, now}

\* tokens loginUser / loginAdmin have issued up to now
IssuedTokens ==
    {Sign(u, "user", iat, UserTokenDays) : u \in Ids(Users), iat \in IssueTimes}
    \cup {Sign(a, "admin", iat, AdminTokenDays) : a \in Ids(Admins), iat \in IssueTimes}

\* tokens not signed with jwtSecret
ForgedTokens ==
    {[present |-> TRUE, sig |-> FALSE, id |-> 1, type |-> t, exp |-> MaxNow + 1] :
        t \in {"user", "admin"}}

Headers == {NoToken} \cup IssuedTokens \cup ForgedTokens

\* mutant of JwtVerify: the signature alone, the expiry ignored
JwtVerify_noExpiry(token) == token.sig

\* jwt.verify(token, jwtSecret): signature, then expiry
JwtVerify(token) == token.sig /\ now < token.exp

\* --------------------------------------------------------------- requests
\* a slot holds one request: its position (pc), what authMiddleware put on
\* req, the body fields the handler still reads, and the response status.
\* auth, ran, wrote and sent are history: what the token was, whether the
\* controller was entered, whether this request inserted a row or had a
\* mail accepted. They are read by the properties and by no action.
\* out is the JSON body of a 200 response, param is req.params.courseId,
\* loc holds the locals of getCourseContent.
Idle ==
    [route |-> "none", pc |-> "idle", status |-> 0,
     userId |-> 0, userType |-> "none", courseId |-> 0, message |-> "",
     param |-> 0, loc |-> <<>>, out |-> <<>>,
     auth |-> "none", ran |-> FALSE, wrote |-> FALSE, sent |-> FALSE]

\* res.status(code).json(...): the handler returns, its locals are dropped
Respond(r, code) ==
    [r EXCEPT !.pc = "done", !.status = code,
              !.userId = 0, !.courseId = 0, !.message = "", !.loc = <<>>]

\* res.json(body)
RespondJson(r, body) == [Respond(r, 200) EXCEPT !.out = body]

\* ORDER BY key ASC over the rows S of a table: every order of the rows in
\* which the keys do not decrease (rows with equal keys come in any order)
OrderBy(S, key) ==
    {f \in [1..Cardinality(S) -> S] :
        /\ \A i, j \in 1..Cardinality(S) : i # j => f[i] # f[j]
        /\ \A i \in 1..Cardinality(S) - 1 : key[f[i]] <= key[f[i + 1]]}

Req(s) == reqs[s]

InFlight(s) == Req(s).pc \notin {"idle", "done"}

\* ------------------------------------------------- the relational store
\* mutant of InsertPurchase: the table without UNIQUE KEY user_course_unique
InsertPurchase_noUniqueKey(u, c) ==
    IF u \notin Ids(Users) \/ c \notin Ids(Courses)
    THEN [code |-> "ER_NO_REFERENCED_ROW_2", rows |-> Purchases]
    ELSE [code |-> "OK",
          rows |-> Append(Purchases,
                     [user_id |-> u, course_id |-> c, purchase_date |-> now])]

\* INSERT INTO Purchases (user_id, course_id): UNIQUE KEY user_course_unique,
\* FOREIGN KEYs on Users(id) and Courses(id), purchase_date CURRENT_TIMESTAMP
InsertPurchase(u, c) ==
    IF PurchaseRows(u, c) # {}
    THEN [code |-> "ER_DUP_ENTRY", rows |-> Purchases]
    ELSE IF u \notin Ids(Users) \/ c \notin Ids(Courses)
    THEN [code |-> "ER_NO_REFERENCED_ROW_2", rows |-> Purchases]
    ELSE [code |-> "OK",
          rows |-> Append(Purchases,
                     [user_id |-> u, course_id |-> c, purchase_date |-> now])]

\* INSERT INTO RefundRequests (user_id, course_id, message): no unique key,
\* FOREIGN KEYs on Users(id) and Courses(id), status DEFAULT 'PENDENTE'
\* (request_date is read by no statement of the program and is left out)
InsertRefundRequest(u, c, m) ==
    IF u \notin Ids(Users) \/ c \notin Ids(Courses)
    THEN [code |-> "ER_NO_REFERENCED_ROW_2", rows |-> RefundRequests]
    ELSE [code |-> "OK",
          rows |-> Append(RefundRequests,
                     [user_id |-> u, course_id |-> c, message |-> m,
                      status |-> "PENDENTE"])]

\* INSERT INTO Users: email is UNIQUE
InsertUser(name, email, hash) ==
    IF \E i \in Ids(Users) : Users[i].email = email
    THEN [code |-> "ER_DUP_ENTRY", rows |-> Users]
    ELSE [code |-> "OK",
          rows |-> Append(Users, [name |-> name, email |-> email,
                                  password_hash |-> hash])]

\* mutant of InsertAdmin: the table without the UNIQUE key on username
InsertAdmin_noUniqueKey(username, hash) ==
    [code |-> "OK",
     rows |-> Append(Admins, [username |-> username, password_hash |-> hash])]

\* INSERT INTO Admins: username is UNIQUE
InsertAdmin(username, hash) ==
    IF \E i \in Ids(Admins) : Admins[i].username = username
    THEN [code |-> "ER_DUP_ENTRY", rows |-> Admins]
    ELSE [code |-> "OK",
          rows |-> Append(Admins, [username |-> username, password_hash |-> hash])]

\* ------------------------------------------------------------ middleware
\* what the Authorization header carried (history)
TokenState(hdr) ==
    IF ~hdr.present THEN "missing"
    ELSE IF ~hdr.sig THEN "badsig"
    ELSE IF hdr.exp <= now THEN "expired"
    ELSE "valid"

\* authMiddleware: 401 without a token, 403 when jwt.verify throws,
\* else req.userId / req.userType are set and next() is called
authMiddleware(r, hdr) ==
    IF ~hdr.present
    THEN Respond(r, 401)
    ELSE IF JwtVerify(hdr)
    THEN [r EXCEPT !.userId = hdr.id, !.userType = hdr.type]
    ELSE Respond(r, 403)

\* mutant of adminGuard: every authenticated caller is let through
adminGuard_open(r) == r

\* adminGuard: 403 unless req.userType is 'admin'
adminGuard(r) ==
    IF r.userType # "admin" THEN Respond(r, 403) ELSE r

\* ------------------------------------------- controllers, up to 1st await
\* purchaseCourse, lines 57-68: required field, then SELECT ... FROM Courses
purchaseCourse(r, body) ==
    LET q == [r EXCEPT !.ran = TRUE, !.courseId = body.courseId]
    IN IF FalsyId(body.courseId) THEN Respond(q, 400)
       ELSE [q EXCEPT !.pc = "selCourse"]

\* getPurchasedCourses, lines 93-104: SELECT ... FROM Purchases JOIN Courses
getPurchasedCourses(r, body) ==
    [r EXCEPT !.ran = TRUE, !.pc = "selPurchases"]

\* mutant of coursesWithRefundStatus: the days truncated instead of rounded up
coursesWithRefundStatus_floor(i) ==
    LET purchaseDate == Purchases[i].purchase_date
        diffTime == Abs(now - purchaseDate)
        diffDays == diffTime \div TicksPerDay
    IN [course_id |-> Purchases[i].course_id,
        name |-> Courses[Purchases[i].course_id].name,
        purchase_date |-> purchaseDate,
        isRefundEligible |-> diffDays <= RefundWindowDays,
        daysSincePurchase |-> diffDays]

\* getPurchasedCourses, lines 107-120: the refund flag of one purchase row
coursesWithRefundStatus(i) ==
    LET purchaseDate == Purchases[i].purchase_date
        diffTime == Abs(now - purchaseDate)
        diffDays == Ceil(diffTime, TicksPerDay)
    IN [course_id |-> Purchases[i].course_id,
        name |-> Courses[Purchases[i].course_id].name,
        purchase_date |-> purchaseDate,
        isRefundEligible |-> diffDays <= RefundWindowDays,
        daysSincePurchase |-> diffDays]

\* getCourseContent, lines 135-144: SELECT purchase_date FROM Purchases
getCourseContent(r, body) ==
    [r EXCEPT !.ran = TRUE, !.param = body.courseId, !.pc = "cPurchase"]

\* mutant of getCourseContent_check: the course looked up before the purchase
getCourseContent_check_courseFirst(r, purchase) ==
    IF r.param \notin Ids(Courses) THEN Respond(r, 404)
    ELSE IF purchase = {} THEN Respond(r, 403)
    ELSE [r EXCEPT !.pc = "cCourse",
                   !.loc = [purchaseDate |->
                              Purchases[CHOOSE i \in purchase : TRUE].purchase_date]]

\* getCourseContent, lines 146-153: 403 without a purchase row, else the
\* purchase date is kept and the course is looked up
getCourseContent_check(r, purchase) ==
    IF purchase = {} THEN Respond(r, 403)
    ELSE [r EXCEPT !.pc = "cCourse",
                   !.loc = [purchaseDate |->
                              Purchases[CHOOSE i \in purchase : TRUE].purchase_date]]

Placeholder == <<"O conteudo desta aula sera liberado em breve.">>

\* the redacted shape, lines 183-192
Redacted(l, releaseDate) ==
    [id |-> l, title |-> Lessons[l].title, order_index |-> Lessons[l].order_index,
     isReleased |-> FALSE, releaseDate |-> IsoDate(releaseDate),
     videoUrl |-> Null, descriptionText |-> Placeholder, links |-> Null]

\* the full shape, lines 196-200
Released(l) ==
    [id |-> l, title |-> Lessons[l].title, video_url |-> Lessons[l].video_url,
     description_text |-> Lessons[l].description_text,
     drip_days |-> Lessons[l].drip_days, order_index |-> Lessons[l].order_index,
     isReleased |-> TRUE,
     links |-> IF Lessons[l].links # Null THEN JsonParse(Lessons[l].links) ELSE Null]

\* mutant of LessonView: released only after the release instant has passed
LessonView_late(l, purchaseDate) ==
    LET releaseDate == AddDays(purchaseDate, Lessons[l].drip_days)
    IN IF ~(now > releaseDate) THEN Redacted(l, releaseDate) ELSE Released(l)

\* mutant of LessonView: the hidden lesson still carries its video URL
LessonView_leak(l, purchaseDate) ==
    LET releaseDate == AddDays(purchaseDate, Lessons[l].drip_days)
    IN IF ~(now >= releaseDate)
       THEN [Redacted(l, releaseDate) EXCEPT !.videoUrl = Lessons[l].video_url]
       ELSE Released(l)

\* getCourseContent, lines 171-201: the lessons.map callback (drip content)
LessonView(l, purchaseDate) ==
    LET dripDays == Lessons[l].drip_days
        releaseDate == AddDays(purchaseDate, dripDays)
        isReleased == now >= releaseDate
    IN IF ~isReleased THEN Redacted(l, releaseDate) ELSE Released(l)

\* requestRefund, lines 219-232: required fields, then SELECT ... FROM Purchases
requestRefund(r, body) ==
    LET q == [r EXCEPT !.ran = TRUE, !.courseId = body.courseId,
                       !.message = body.message]
    IN IF FalsyId(body.courseId) \/ FalsyText(body.message) THEN Respond(q, 400)
       ELSE [q EXCEPT !.pc = "selPurchase"]

\* mutant of RefundWindow: the days truncated instead of rounded up
RefundWindow_floor(r, purchaseDate) ==
    LET diffTime == Abs(now - purchaseDate)
        diffDays == diffTime \div TicksPerDay
    IN IF diffDays > RefundWindowDays THEN Respond(r, 403)
       ELSE [r EXCEPT !.pc = "selPending"]

\* mutant of RefundWindow: the seventh day is already outside the window
RefundWindow_strict(r, purchaseDate) ==
    LET diffTime == Abs(now - purchaseDate)
        diffDays == Ceil(diffTime, TicksPerDay)
    IN IF diffDays >= RefundWindowDays THEN Respond(r, 403)
       ELSE [r EXCEPT !.pc = "selPending"]

\* requestRefund, lines 238-246: the 7-day window
RefundWindow(r, purchaseDate) ==
    LET diffTime == Abs(now - purchaseDate)
        diffDays == Ceil(diffTime, TicksPerDay)
    IN IF diffDays > RefundWindowDays THEN Respond(r, 403)
       ELSE [r EXCEPT !.pc = "selPending"]

\* mutant of RefundPending: the request goes on to the INSERT whatever the
\* pending-request lookup returned
RefundPending_ignoreRows(r, requestRows) == [r EXCEPT !.pc = "insRefund"]

\* requestRefund, lines 254-256: the pending-request check
RefundPending(r, requestRows) ==
    IF requestRows # {} THEN Respond(r, 409)
    ELSE [r EXCEPT !.pc = "insRefund"]

\* createCourse, lines 25-53: required fields and the PNG check, then
\* uploadFile is awaited
createCourse(r, body) ==
    LET q == [r EXCEPT !.ran = TRUE]
    IN IF \/ FalsyText(body.name) \/ FalsyText(body.description)
          \/ FalsyText(body.price) \/ body.file = NoFile
       THEN Respond(q, 400)
       ELSE IF body.file # "image/png" THEN Respond(q, 400)
       ELSE [q EXCEPT !.pc = "upImage",
                      !.loc = [name |-> body.name, description |-> body.description,
                               price |-> body.price]]

\* mutant of createModule: the order index is not required
createModule_noOrderCheck(r, body) ==
    LET q == [r EXCEPT !.ran = TRUE, !.courseId = body.courseId]
    IN IF FalsyId(body.courseId) \/ FalsyText(body.name)
       THEN Respond(q, 400)
       ELSE [q EXCEPT !.pc = "selCourseM",
                      !.loc = [name |-> body.name, orderIndex |-> body.orderIndex]]

\* createModule, lines 79-88: required fields, then SELECT id FROM Courses
createModule(r, body) ==
    LET q == [r EXCEPT !.ran = TRUE, !.courseId = body.courseId]
    IN IF FalsyId(body.courseId) \/ FalsyText(body.name) \/ body.orderIndex = Undefined
       THEN Respond(q, 400)
       ELSE [q EXCEPT !.pc = "selCourseM",
                      !.loc = [name |-> body.name, orderIndex |-> body.orderIndex]]

\* createLesson, lines 147-156: the links are parsed and formatted, then the
\* INSERT is issued
createLesson_links(r) ==
    IF r.loc.linksJson # Null /\ ~ValidJson(r.loc.linksJson) THEN Respond(r, 400)
    ELSE [r EXCEPT !.pc = "insLesson",
                   !.loc = [moduleId |-> @.moduleId, title |-> @.title,
                            videoUrl |-> @.videoUrl,
                            descriptionText |-> @.descriptionText,
                            links |-> IF @.linksJson # Null
                                      THEN JsonStringify(JsonParse(@.linksJson))
                                      ELSE Null,
                            dripDays |-> @.dripDays, orderIndex |-> @.orderIndex]]

\* createLesson, lines 116-145: required fields; with a file, the video
\* check and then uploadFile is awaited; without one, on to the links
createLesson(r, body) ==
    LET q == [r EXCEPT !.ran = TRUE,
                       !.loc = [moduleId |-> body.moduleId, title |-> body.title,
                                videoUrl |-> Null,
                                descriptionText |-> body.descriptionText,
                                linksJson |-> body.linksJson,
                                dripDays |-> body.dripDays,
                                orderIndex |-> body.orderIndex]]
    IN IF \/ FalsyId(body.moduleId) \/ body.title = Null
          \/ body.dripDays = Undefined \/ body.orderIndex = Undefined
       THEN Respond(q, 400)
       ELSE IF body.file # NoFile
       THEN IF ~IsVideo(body.file) THEN Respond(q, 400)
            ELSE [q EXCEPT !.pc = "upVideo"]
       ELSE createLesson_links(q)

\* registerUser, lines 321-328: required fields, then SELECT id FROM Users
registerUser(r, body) ==
    LET q == [r EXCEPT !.ran = TRUE,
                       !.loc = [name |-> body.name, email |-> body.email,
                                password |-> body.password]]
    IN IF body.name = Null \/ body.email = Null \/ body.password = Null
       THEN Respond(q, 400)
       ELSE [q EXCEPT !.pc = "selEmail"]

\* loginUser, lines 348-356: required fields, then SELECT ... FROM Users
loginUser(r, body) ==
    LET q == [r EXCEPT !.ran = TRUE,
                       !.loc = [email |-> body.email, password |-> body.password]]
    IN IF body.email = Null \/ body.password = Null THEN Respond(q, 400)
       ELSE [q EXCEPT !.pc = "selUser"]

\* loginAdmin, lines 398-406: required fields, then SELECT ... FROM Admins
loginAdmin(r, body) ==
    LET q == [r EXCEPT !.ran = TRUE,
                       !.loc = [username |-> body.username, password |-> body.password]]
    IN IF FalsyText(body.username) \/ FalsyText(body.password) THEN Respond(q, 400)
       ELSE [q EXCEPT !.pc = "selAdmin"]

\* mutant of loginUser_answer: the token issued whatever the comparison says
loginUser_answer_noCompare(r, isPasswordValid) ==
    RespondJson(r, [token |-> Sign(r.loc.user.id, "user", now, UserTokenDays),
                    user |-> [id |-> r.loc.user.id, name |-> r.loc.user.name,
                              email |-> r.loc.email],
                    type |-> "user"])

\* loginUser, lines 363-372: the outcome of bcrypt.compare
loginUser_answer(r, isPasswordValid) ==
    IF ~isPasswordValid THEN Respond(r, 401)
    ELSE RespondJson(r, [token |-> Sign(r.loc.user.id, "user", now, UserTokenDays),
                         user |-> [id |-> r.loc.user.id, name |-> r.loc.user.name,
                                   email |-> r.loc.email],
                         type |-> "user"])

\* loginAdmin, lines 413-422: the outcome of bcrypt.compare
loginAdmin_answer(r, isPasswordValid) ==
    IF ~isPasswordValid THEN Respond(r, 401)
    ELSE RespondJson(r, [token |-> Sign(r.loc.admin.id, "admin", now, AdminTokenDays),
                         admin |-> [id |-> r.loc.admin.id, username |-> r.loc.username],
                         type |-> "admin"])

\* registerUser, lines 335-342: 201, or the catch block (a duplicate email
\* reported by the UNIQUE key of Users.email is not told apart there)
registerUser_answer(r, code) ==
    IF code = "OK" THEN Respond([r EXCEPT !.wrote = TRUE], 201)
    ELSE Respond(r, 500)

ShopRoutes == {"purchase", "refund"}
RefundRoutes == {"dashboard", "refund"}
ContentRoutes == {"content"}
UserRoutes == {"purchase", "dashboard", "content", "refund"}
AdminRoutes == {"adminCourse", "adminModule", "adminLesson"}
PublicRoutes == {"register", "login", "adminLogin"}

\* request bodies (course ids 1 and 2; absent fields)
Bodies(route) ==
    IF route = "purchase"
    THEN {[courseId |-> c, message |-> ""] : c \in {0, 1, 2}}
    ELSE IF route = "refund"
    THEN {[courseId |-> c, message |-> m] : c \in {0, 1, 2}, m \in {"", "m"}}
    ELSE IF route = "content"
    THEN {[courseId |-> c, message |-> ""] : c \in {1, 2}}
    ELSE IF route = "register"
    THEN [name : {Null, <<"name", 2>>}, email : {Null, <<"mail", 1>>, <<"mail", 2>>},
          password : {Null, <<"pw", 2>>}]
    ELSE IF route = "login"
    THEN [email : {Null, <<"mail", 1>>, <<"mail", 2>>, <<"mail", 3>>},
          password : {Null, <<"pw", 1>>, <<"pw", 2>>}]
    ELSE IF route = "adminLogin"
    THEN [username : {"", "adm123", "root"}, password : {"", "adm123", "root"}]
    ELSE IF route = "adminCourse"
    THEN [name : {"", "c3"}, description : {"", "d3"}, price : {"", "9"},
          file : {NoFile, "image/png", "image/jpeg"}]
    ELSE IF route = "adminModule"
    THEN [courseId : {0, 1, 2}, name : {"", "m3"}, orderIndex : {Undefined, "1"}]
    ELSE IF route = "adminLesson"
    THEN [moduleId : {1, 2}, title : {<<"title", "3">>}, descriptionText : {Null},
          linksJson : {Null, JsonStringify(LinksOf(3)), <<"{">>},
          dripDays : {"1"}, orderIndex : {"1"},
          file : {NoFile, "video/mp4", "image/png"}]
         \cup [moduleId : {0}, title : {<<"title", "3">>}, descriptionText : {Null},
               linksJson : {Null}, dripDays : {"1"}, orderIndex : {"1"},
               file : {NoFile, "video/mp4"}]
         \cup [moduleId : {1}, title : {Null}, descriptionText : {Null},
               linksJson : {Null}, dripDays : {"1"}, orderIndex : {"1"},
               file : {NoFile, "video/mp4"}]
         \cup [moduleId : {1}, title : {<<"title", "3">>}, descriptionText : {Null},
               linksJson : {Null}, dripDays : {Undefined, "1"},
               orderIndex : {Undefined, "1"}, file : {NoFile, "video/mp4"}]
    ELSE {[courseId |-> 0, message |-> ""]}

Controller(route, r, body) ==
    IF route = "purchase" THEN purchaseCourse(r, body)
    ELSE IF route = "refund" THEN requestRefund(r, body)
    ELSE IF route = "content" THEN getCourseContent(r, body)
    ELSE IF route = "adminCourse" THEN createCourse(r, body)
    ELSE IF route = "register" THEN registerUser(r, body)
    ELSE IF route = "login" THEN loginUser(r, body)
    ELSE IF route = "adminLogin" THEN loginAdmin(r, body)
    ELSE IF route = "adminModule" THEN createModule(r, body)
    ELSE IF route = "adminLesson" THEN createLesson(r, body)
    ELSE getPurchasedCourses(r, body)

\* startServer: app.post('/user/...', authMiddleware, controller) and
\* app.post('/admin/...', authMiddleware, adminGuard, [upload,] controller);
\* a middleware that answers does not call next()
Middleware(route, r, hdr) ==
    LET a == authMiddleware(r, hdr)
    IN IF a.pc = "done" THEN a
       ELSE IF route \in AdminRoutes THEN adminGuard(a)
       ELSE a

\* mutant of purchaseCourse_answer: the catch block without the ER_DUP_ENTRY case
purchaseCourse_answer_noDupCase(r, code) ==
    IF code = "OK" THEN Respond([r EXCEPT !.wrote = TRUE], 201)
    ELSE Respond(r, 500)

\* purchaseCourse, lines 79-87: 201, or the catch block
purchaseCourse_answer(r, code) ==
    IF code = "OK" THEN Respond([r EXCEPT !.wrote = TRUE], 201)
    ELSE IF code = "ER_DUP_ENTRY" THEN Respond(r, 409)
    ELSE Respond(r, 500)

\* ------------------------------------------------------------- actions
\* a request arrives on a free slot and runs to its first await
Receive(s, routes) ==
    /\ ~InFlight(s)
    /\ \E route \in routes, hdr \in Headers :
         LET m == Middleware(route,
                             [Idle EXCEPT !.route = route, !.auth = TokenState(hdr)],
                             hdr)
         IN IF m.pc = "done"
            THEN reqs' = [reqs EXCEPT ![s] = m]
            ELSE \E body \in Bodies(route) :
                    reqs' = [reqs EXCEPT ![s] = Controller(route, m, body)]
    /\ UNCHANGED <<now, apiInstance, tables, assets, outbox>>

\* purchaseCourse, lines 68-77: course lookup answered
purchaseCourse_course(s) ==
    /\ Req(s).pc = "selCourse"
    /\ reqs' = [reqs EXCEPT ![s] =
            IF Req(s).courseId \notin Ids(Courses) THEN Respond(@, 404)
            ELSE [@ EXCEPT !.pc = "insPurchase"]]
    /\ UNCHANGED <<now, apiInstance, tables, assets, outbox>>

\* purchaseCourse, lines 74-87: the INSERT is executed and answered
purchaseCourse_insert(s) ==
    /\ Req(s).pc = "insPurchase"
    /\ LET res == InsertPurchase(Req(s).userId, Req(s).courseId)
       IN /\ Purchases' = res.rows
          /\ reqs' = [reqs EXCEPT ![s] = purchaseCourse_answer(@, res.code)]
    /\ UNCHANGED <<now, apiInstance, Admins, Users, Courses, Modules, Lessons,
                   RefundRequests, assets, outbox>>

\* getPurchasedCourses, lines 97-122: the purchases of the user that join a
\* course, ORDER BY purchase_date DESC, each with its refund flag
getPurchasedCourses_select(s) ==
    /\ Req(s).pc = "selPurchases"
    /\ LET rows == {i \in Ids(Purchases) : /\ Purchases[i].user_id = Req(s).userId
                                          /\ Purchases[i].course_id \in Ids(Courses)}
       IN \E purchases \in OrderBy(rows, [i \in rows |-> 0 - Purchases[i].purchase_date]) :
            reqs' = [reqs EXCEPT ![s] =
                RespondJson(@, [k \in DOMAIN purchases |->
                                  coursesWithRefundStatus(purchases[k])])]
    /\ UNCHANGED <<now, apiInstance, tables, assets, outbox>>

\* getCourseContent, lines 141-153: purchase lookup answered
getCourseContent_purchase(s) ==
    /\ Req(s).pc = "cPurchase"
    /\ reqs' = [reqs EXCEPT ![s] =
            getCourseContent_check(@, PurchaseRows(Req(s).userId, Req(s).param))]
    /\ UNCHANGED <<now, apiInstance, tables, assets, outbox>>

\* getCourseContent, lines 153-159: course lookup answered
getCourseContent_course(s) ==
    /\ Req(s).pc = "cCourse"
    /\ reqs' = [reqs EXCEPT ![s] =
            IF Req(s).param \notin Ids(Courses) THEN Respond(@, 404)
            ELSE [@ EXCEPT !.pc = "cModules",
                           !.loc = [purchaseDate |-> @.purchaseDate,
                                    course |-> [id |-> Req(s).param,
                                                name |-> Courses[Req(s).param].name],
                                    modules |-> <<>>, k |-> 0]]]
    /\ UNCHANGED <<now, apiInstance, tables, assets, outbox>>

\* getCourseContent, lines 156-169 and 204-207: the modules of the course,
\* ORDER BY order_index; the loop starts, or there is nothing to loop over
getCourseContent_modules(s) ==
    /\ Req(s).pc = "cModules"
    /\ LET rows == {m \in Ids(Modules) : Modules[m].course_id = Req(s).param}
       IN \E ms \in OrderBy(rows, [m \in rows |-> Modules[m].order_index]) :
            LET modules == [k \in DOMAIN ms |->
                              [id |-> ms[k], name |-> Modules[ms[k]].name,
                               order_index |-> Modules[ms[k]].order_index]]
            IN reqs' = [reqs EXCEPT ![s] =
                 IF rows = {}
                 THEN RespondJson(@, [course |-> @.loc.course, modules |-> <<>>])
                 ELSE [@ EXCEPT !.pc = "cLessons", !.loc.modules = modules, !.loc.k = 1]]
    /\ UNCHANGED <<now, apiInstance, tables, assets, outbox>>

\* getCourseContent, lines 162-207: the lessons of the next module, ORDER BY
\* order_index, mapped; after the last module the tree is sent
getCourseContent_lessons(s) ==
    /\ Req(s).pc = "cLessons"
    /\ LET loc == Req(s).loc
           module == loc.modules[loc.k]
           rows == {l \in Ids(Lessons) : Lessons[l].module_id = module.id}
       IN \E ls \in OrderBy(rows, [l \in rows |-> Lessons[l].order_index]) :
            LET lessons == [j \in DOMAIN ls |-> LessonView(ls[j], loc.purchaseDate)]
                modules == [loc.modules EXCEPT ![loc.k] =
                              [id |-> module.id, name |-> module.name,
                               order_index |-> module.order_index,
                               lessons |-> lessons]]
            IN reqs' = [reqs EXCEPT ![s] =
                 IF loc.k = Len(loc.modules)
                 THEN RespondJson(@, [course |-> loc.course, modules |-> modules])
                 ELSE [@ EXCEPT !.loc.modules = modules, !.loc.k = loc.k + 1]]
    /\ UNCHANGED <<now, apiInstance, tables, assets, outbox>>

\* mutant of requestRefund_purchase: the request goes on to the pending
\* check whether or not a purchase was found
requestRefund_purchase_noLookup(s) ==
    /\ Req(s).pc = "selPurchase"
    /\ reqs' = [reqs EXCEPT ![s] = RefundWindow(@, now)]
    /\ UNCHANGED <<now, apiInstance, tables, assets, outbox>>

\* requestRefund, lines 229-252: purchase lookup (Purchases JOIN Courses
\* JOIN Users) answered, then the 7-day window
requestRefund_purchase(s) ==
    /\ Req(s).pc = "selPurchase"
    /\ LET rows == {i \in PurchaseRows(Req(s).userId, Req(s).courseId) :
                      /\ Purchases[i].course_id \in Ids(Courses)
                      /\ Purchases[i].user_id \in Ids(Users)}
       IN reqs' = [reqs EXCEPT ![s] =
            IF rows = {} THEN Respond(@, 404)
            ELSE RefundWindow(@, Purchases[CHOOSE i \in rows : TRUE].purchase_date)]
    /\ UNCHANGED <<now, apiInstance, tables, assets, outbox>>

\* requestRefund, lines 249-262: pending lookup answered
requestRefund_pending(s) ==
    /\ Req(s).pc = "selPending"
    /\ reqs' = [reqs EXCEPT ![s] =
            RefundPending(@, PendingRows(Req(s).userId, Req(s).courseId))]
    /\ UNCHANGED <<now, apiInstance, tables, assets, outbox>>

\* requestRefund, lines 259-267 and sendRefundNotification, lines 39-43:
\* the INSERT is executed; without a mail client the notification returns
\* at once and the handler answers, else it awaits the mail service
requestRefund_insert(s) ==
    /\ Req(s).pc = "insRefund"
    /\ LET res == InsertRefundRequest(Req(s).userId, Req(s).courseId, Req(s).message)
       IN /\ RefundRequests' = res.rows
          /\ reqs' = [reqs EXCEPT ![s] =
                IF res.code # "OK" THEN Respond(@, 500)
                ELSE IF ~apiInstance THEN Respond([@ EXCEPT !.wrote = TRUE], 200)
                ELSE [@ EXCEPT !.wrote = TRUE, !.pc = "notify"]]
    /\ UNCHANGED <<now, apiInstance, Admins, Users, Courses, Modules, Lessons,
                   Purchases, assets, outbox>>

\* sendRefundNotification, lines 48-74, and requestRefund, lines 265-272:
\* the mail service accepts the mail, or fails and the handler answers 500
requestRefund_notify(s) ==
    /\ Req(s).pc = "notify"
    /\ \E accepted \in BOOLEAN :
         IF accepted
         THEN /\ outbox' = outbox (+) SetToBag({<<Req(s).userId, Req(s).courseId>>})
              /\ reqs' = [reqs EXCEPT ![s] = Respond([@ EXCEPT !.sent = TRUE], 200)]
         ELSE /\ outbox' = outbox
              /\ reqs' = [reqs EXCEPT ![s] = Respond(@, 500)]
    /\ UNCHANGED <<now, apiInstance, tables, assets>>

\* the rows the admin routes have added to Courses, Modules and Lessons
\* (every specification with admin routes starts from one course)
Created == (Len(Courses) - 1) + Len(Modules) + Len(Lessons)

\* uploadFile, lines 21-32: the object storage takes the file and returns
\* its URL, or the upload fails and uploadFile throws
Upload(folder) ==
    {[ok |-> FALSE, url |-> Null, stored |-> assets]}
    \cup {[ok |-> TRUE, url |-> <<folder, Cardinality(assets) + 1>>,
            stored |-> assets \cup {<<folder, Cardinality(assets) + 1>>}] :
              x \in {y \in {1} : Cardinality(assets) < MaxAssets}}

\* createCourse, lines 52-58 and 66-69: the image upload is answered
createCourse_upload(s) ==
    /\ Req(s).pc = "upImage"
    /\ \E up \in Upload("cursos_capas") :
         /\ assets' = up.stored
         /\ reqs' = [reqs EXCEPT ![s] =
                IF ~up.ok THEN Respond(@, 500)
                ELSE [@ EXCEPT !.pc = "insCourse",
                               !.loc = [name |-> @.name, description |-> @.description,
                                        price |-> @.price, imageUrl |-> up.url]]]
    /\ UNCHANGED <<now, apiInstance, tables, outbox>>

\* createCourse, lines 55-64: the INSERT is executed and answered
createCourse_insert(s) ==
    /\ Req(s).pc = "insCourse"
    /\ Created < MaxCreated
    /\ Courses' = Append(Courses,
                     [name |-> Req(s).loc.name, image_url |-> Req(s).loc.imageUrl,
                      description |-> Req(s).loc.description,
                      price |-> ParseFloat(Req(s).loc.price)])
    /\ reqs' = [reqs EXCEPT ![s] = Respond([@ EXCEPT !.wrote = TRUE], 201)]
    /\ UNCHANGED <<now, apiInstance, Admins, Users, Modules, Lessons, Purchases,
                   RefundRequests, assets, outbox>>

\* createModule, lines 88-96: course lookup answered
createModule_course(s) ==
    /\ Req(s).pc = "selCourseM"
    /\ reqs' = [reqs EXCEPT ![s] =
            IF Req(s).courseId \notin Ids(Courses) THEN Respond(@, 404)
            ELSE [@ EXCEPT !.pc = "insModule"]]
    /\ UNCHANGED <<now, apiInstance, tables, assets, outbox>>

\* createModule, lines 93-106: the INSERT is executed and answered
createModule_insert(s) ==
    /\ Req(s).pc = "insModule"
    /\ Created < MaxCreated
    /\ IF Req(s).courseId \in Ids(Courses)
       THEN /\ Modules' = Append(Modules,
                             [course_id |-> Req(s).courseId, name |-> Req(s).loc.name,
                              order_index |-> ParseInt(Req(s).loc.orderIndex)])
            /\ reqs' = [reqs EXCEPT ![s] = Respond([@ EXCEPT !.wrote = TRUE], 201)]
       ELSE /\ Modules' = Modules
            /\ reqs' = [reqs EXCEPT ![s] = Respond(@, 500)]
    /\ UNCHANGED <<now, apiInstance, Admins, Users, Courses, Lessons, Purchases,
                   RefundRequests, assets, outbox>>

\* mutant of createLesson_upload: a failed upload is swallowed and the lesson
\* goes on without a video
createLesson_upload_swallow(s) ==
    /\ Req(s).pc = "upVideo"
    /\ \E up \in Upload("aulas_videos") :
         /\ assets' = up.stored
         /\ reqs' = [reqs EXCEPT ![s] =
                createLesson_links([@ EXCEPT !.loc.videoUrl = up.url])]
    /\ UNCHANGED <<now, apiInstance, tables, outbox>>

\* createLesson, lines 133-156: the video upload is answered; a stored
\* video is followed by the parsing of the links
createLesson_upload(s) ==
    /\ Req(s).pc = "upVideo"
    /\ \E up \in Upload("aulas_videos") :
         /\ assets' = up.stored
         /\ reqs' = [reqs EXCEPT ![s] =
                IF ~up.ok THEN Respond(@, 500)
                ELSE createLesson_links([@ EXCEPT !.loc.videoUrl = up.url])]
    /\ UNCHANGED <<now, apiInstance, tables, outbox>>

\* createLesson, lines 155-179: the INSERT is executed and answered; a
\* module id without a Modules row breaks the foreign key
createLesson_insert(s) ==
    /\ Req(s).pc = "insLesson"
    /\ Created < MaxCreated
    /\ LET loc == Req(s).loc
       IN IF loc.moduleId \in Ids(Modules)
          THEN /\ Lessons' = Append(Lessons,
                                [module_id |-> loc.moduleId, title |-> loc.title,
                                 video_url |-> loc.videoUrl,
                                 description_text |-> loc.descriptionText,
                                 links |-> loc.links,
                                 drip_days |-> ParseInt(loc.dripDays),
                                 order_index |-> ParseInt(loc.orderIndex)])
               /\ reqs' = [reqs EXCEPT ![s] = Respond([@ EXCEPT !.wrote = TRUE], 201)]
          ELSE /\ Lessons' = Lessons
               /\ reqs' = [reqs EXCEPT ![s] = Respond(@, 500)]
    /\ UNCHANGED <<now, apiInstance, Admins, Users, Courses, Modules, Purchases,
                   RefundRequests, assets, outbox>>

\* a request arrives on a free slot at a route without middleware and runs
\* to its first await
ReceivePublic(s, routes) ==
    /\ ~InFlight(s)
    /\ \E route \in routes :
         \E body \in Bodies(route) :
            reqs' = [reqs EXCEPT ![s] =
                        Controller(route, [Idle EXCEPT !.route = route], body)]
    /\ UNCHANGED <<now, apiInstance, tables, assets, outbox>>

\* registerUser, lines 328-334: email lookup answered, bcrypt.hash awaited
registerUser_select(s) ==
    /\ Req(s).pc = "selEmail"
    /\ reqs' = [reqs EXCEPT ![s] =
            IF \E i \in Ids(Users) : Users[i].email = Req(s).loc.email
            THEN Respond(@, 409)
            ELSE [@ EXCEPT !.pc = "hash"]]
    /\ UNCHANGED <<now, apiInstance, tables, assets, outbox>>

\* registerUser, lines 334-335: the hash is ready, the INSERT is issued
registerUser_hash(s) ==
    /\ Req(s).pc = "hash"
    /\ reqs' = [reqs EXCEPT ![s] =
            [@ EXCEPT !.pc = "insUser",
                      !.loc = [name |-> @.name, email |-> @.email,
                               hashedPassword |-> Hash(@.password)]]]
    /\ UNCHANGED <<now, apiInstance, tables, assets, outbox>>

\* registerUser, lines 335-342: the INSERT is executed and answered
registerUser_insert(s) ==
    /\ Req(s).pc = "insUser"
    /\ LET res == InsertUser(Req(s).loc.name, Req(s).loc.email, Req(s).loc.hashedPassword)
       IN /\ Users' = res.rows
          /\ reqs' = [reqs EXCEPT ![s] = registerUser_answer(@, res.code)]
    /\ UNCHANGED <<now, apiInstance, Admins, Courses, Modules, Lessons, Purchases,
                   RefundRequests, assets, outbox>>

\* loginUser, lines 356-364: user lookup answered, bcrypt.compare awaited
loginUser_select(s) ==
    /\ Req(s).pc = "selUser"
    /\ LET rows == {i \in Ids(Users) : Users[i].email = Req(s).loc.email}
       IN reqs' = [reqs EXCEPT ![s] =
            IF rows = {} THEN Respond(@, 401)
            ELSE LET i == CHOOSE i \in rows : TRUE
                 IN [@ EXCEPT !.pc = "cmpUser",
                              !.loc = [email |-> @.email, password |-> @.password,
                                       user |-> [id |-> i, name |-> Users[i].name,
                                                 password_hash |-> Users[i].password_hash]]]]
    /\ UNCHANGED <<now, apiInstance, tables, assets, outbox>>

\* loginUser, lines 364-372: the comparison is answered
loginUser_compare(s) ==
    /\ Req(s).pc = "cmpUser"
    /\ reqs' = [reqs EXCEPT ![s] =
            loginUser_answer(@, Compare(Req(s).loc.password, Req(s).loc.user.password_hash))]
    /\ UNCHANGED <<now, apiInstance, tables, assets, outbox>>

\* loginAdmin, lines 406-414: admin lookup answered, bcrypt.compare awaited
loginAdmin_select(s) ==
    /\ Req(s).pc = "selAdmin"
    /\ LET rows == {i \in Ids(Admins) : Admins[i].username = Req(s).loc.username}
       IN reqs' = [reqs EXCEPT ![s] =
            IF rows = {} THEN Respond(@, 401)
            ELSE LET i == CHOOSE i \in rows : TRUE
                 IN [@ EXCEPT !.pc = "cmpAdmin",
                              !.loc = [username |-> @.username, password |-> @.password,
                                       admin |-> [id |-> i,
                                                  password_hash |-> Admins[i].password_hash]]]]
    /\ UNCHANGED <<now, apiInstance, tables, assets, outbox>>

\* loginAdmin, lines 414-422: the comparison is answered
loginAdmin_compare(s) ==
    /\ Req(s).pc = "cmpAdmin"
    /\ reqs' = [reqs EXCEPT ![s] =
            loginAdmin_answer(@, Compare(Req(s).loc.password, Req(s).loc.admin.password_hash))]
    /\ UNCHANGED <<now, apiInstance, tables, assets, outbox>>

\* startServer, lines 18-24, and initializeDatabase, lines 83-175: a server
\* process starts on a free slot; the CREATE TABLE IF NOT EXISTS statements
\* leave existing tables alone; the bootstrap admin is looked up
startServer(s) ==
    /\ ~InFlight(s)
    /\ reqs' = [reqs EXCEPT ![s] =
                  [Idle EXCEPT !.route = "boot", !.ran = TRUE, !.pc = "bootSel"]]
    /\ UNCHANGED <<now, apiInstance, tables, assets, outbox>>

\* initializeDatabase, lines 175-177 and 183-187: admin lookup answered; the
\* run is over when the record exists (status 0: the server goes on to
\* listen), else bcrypt.hash is awaited
initializeDatabase_select(s) ==
    /\ Req(s).pc = "bootSel"
    /\ LET adminRows == {i \in Ids(Admins) : Admins[i].username = "adm123"}
       IN reqs' = [reqs EXCEPT ![s] =
            IF adminRows = {} THEN [@ EXCEPT !.pc = "bootHash"]
            ELSE Respond(@, 0)]
    /\ UNCHANGED <<now, apiInstance, tables, assets, outbox>>

\* initializeDatabase, lines 177-178: the hash is ready, the INSERT is issued
initializeDatabase_hash(s) ==
    /\ Req(s).pc = "bootHash"
    /\ reqs' = [reqs EXCEPT ![s] =
            [@ EXCEPT !.pc = "bootIns", !.loc = [hashedPassword |-> Hash("adm123")]]]
    /\ UNCHANGED <<now, apiInstance, tables, assets, outbox>>

\* initializeDatabase, lines 178-191, and startServer, lines 84-87: the
\* INSERT is executed; an error is rethrown and the process exits (status 1)
initializeDatabase_insert(s) ==
    /\ Req(s).pc = "bootIns"
    /\ LET res == InsertAdmin("adm123", Req(s).loc.hashedPassword)
       IN /\ Admins' = res.rows
          /\ reqs' = [reqs EXCEPT ![s] =
                IF res.code = "OK" THEN Respond([@ EXCEPT !.wrote = TRUE], 0)
                ELSE Respond(@, 1)]
    /\ UNCHANGED <<now, apiInstance, Users, Courses, Modules, Lessons, Purchases,
                   RefundRequests, assets, outbox>>

\* time passes
Tick ==
    /\ now < MaxNow
    /\ now' = now + 1
    /\ UNCHANGED <<apiInstance, tables, assets, outbox, reqs>>

\* ------------------------------------------------------- specifications
\* the state after startServer: initializeDatabase has created the bootstrap
\* admin; users are registered and one course is published
Bootstrap == <<[username |-> "adm123", password_hash |-> Hash("adm123")]>>

User(n) == [name |-> <<"name", n>>, email |-> <<"mail", n>>,
            password_hash |-> Hash(<<"pw", n>>)]

Course1 == [name |-> "c1", image_url |-> <<"cursos_capas", 0>>,
            description |-> "d1", price |-> 10]

Init ==
    /\ now = 0
    /\ apiInstance \in BOOLEAN
    /\ Admins = Bootstrap
    /\ Users = <<User(1)>>
    /\ Courses = <<Course1>>
    /\ Modules = <<>>
    /\ Lessons = <<>>
    /\ Purchases = <<>>
    /\ RefundRequests = <<>>
    /\ assets = {}
    /\ outbox = EmptyBag
    /\ reqs = [s \in Slots |-> Idle]

\* Spec: two clients at a time on the purchase and refund routes, over the
\* first RaceTicks ticks
Next ==
    \/ Tick /\ now < RaceTicks
    \/ \E s \in Slots : Receive(s, ShopRoutes)
    \/ \E s \in Slots : purchaseCourse_course(s)
    \/ \E s \in Slots : purchaseCourse_insert(s)
    \/ \E s \in Slots : requestRefund_purchase(s)
    \/ \E s \in Slots : requestRefund_pending(s)
    \/ \E s \in Slots : requestRefund_insert(s)
    \/ \E s \in Slots : requestRefund_notify(s)

Spec == Init /\ [][Next]_vars

\* SpecSeq: one client at a time on the purchase and refund routes, over
\* MaxDays days
NextSeq ==
    \/ Tick
    \/ Receive("r1", ShopRoutes)
    \/ purchaseCourse_course("r1")
    \/ purchaseCourse_insert("r1")
    \/ requestRefund_purchase("r1")
    \/ requestRefund_pending("r1")
    \/ requestRefund_insert("r1")
    \/ requestRefund_notify("r1")

SpecSeq == Init /\ [][NextSeq]_vars

\* SpecTime: the refund arithmetic over every pair of purchase instant and
\* current instant (the clock of the store may run ahead of the server's):
\* user 1 bought course 1 at startup and course 2 at any instant; dashboard
\* and refund requests, one at a time
Course2 == [name |-> "c2", image_url |-> <<"cursos_capas", 0>>,
            description |-> "d2", price |-> 20]

InitTime ==
    /\ now \in 0..MaxNow
    /\ apiInstance = FALSE
    /\ Admins = Bootstrap
    /\ Users = <<User(1)>>
    /\ Courses = <<Course1, Course2>>
    /\ Modules = <<>>
    /\ Lessons = <<>>
    /\ \E p2 \in 0..MaxNow :
         Purchases = <<[user_id |-> 1, course_id |-> 1, purchase_date |-> 0],
                       [user_id |-> 1, course_id |-> 2, purchase_date |-> p2]>>
    /\ RefundRequests = <<>>
    /\ assets = {}
    /\ outbox = EmptyBag
    /\ reqs = [s \in Slots |-> Idle]

NextTime ==
    \/ Tick
    \/ Receive("r1", RefundRoutes)
    \/ getPurchasedCourses_select("r1")
    \/ requestRefund_purchase("r1")
    \/ requestRefund_pending("r1")
    \/ requestRefund_insert("r1")

SpecTime == InitTime /\ [][NextTime]_vars

\* SpecContent: user 1 has just bought course 1 (user 2 has not), whose two
\* modules hold two lessons of any release delay, with or without links;
\* content requests, one at a time, over MaxDays days
Drips == {0, 1, 3}

Lesson(l, m, drip, links, order) ==
    [module_id |-> m, title |-> <<"title", ToString(l)>>,
     video_url |-> <<"video", ToString(l)>>,
     description_text |-> <<"text", ToString(l)>>,
     links |-> links, drip_days |-> drip, order_index |-> order]

InitContent ==
    /\ now \in 0..1
    /\ apiInstance = FALSE
    /\ Admins = Bootstrap
    /\ Users = <<User(1), User(2)>>
    /\ Courses = <<Course1>>
    /\ Modules = <<[course_id |-> 1, name |-> "m1", order_index |-> 2],
                   [course_id |-> 1, name |-> "m2", order_index |-> 1]>>
    /\ \E m1, m2 \in Ids(Modules), d1, d2 \in Drips :
         \E l1 \in {Null, JsonStringify(LinksOf(1))}, l2 \in {Null, JsonStringify(LinksOf(2))} :
            Lessons = <<Lesson(1, m1, d1, l1, 2), Lesson(2, m2, d2, l2, 1)>>
    /\ Purchases = <<[user_id |-> 1, course_id |-> 1, purchase_date |-> now]>>
    /\ RefundRequests = <<>>
    /\ assets = {}
    /\ outbox = EmptyBag
    /\ reqs = [s \in Slots |-> Idle]

NextContent ==
    \/ Tick
    \/ Receive("r1", ContentRoutes)
    \/ getCourseContent_purchase("r1")
    \/ getCourseContent_course("r1")
    \/ getCourseContent_modules("r1")
    \/ getCourseContent_lessons("r1")

SpecContent == InitContent /\ [][NextContent]_vars

\* SpecAuth: one client at a time on every protected route, with any
\* Authorization header, at the instant of startup (expired tokens are
\* those of an earlier run)
InitAuth == Init /\ apiInstance

NextAuth ==
    \/ Receive("r1", UserRoutes \cup AdminRoutes)
    \/ purchaseCourse_course("r1")
    \/ purchaseCourse_insert("r1")
    \/ getPurchasedCourses_select("r1")
    \/ getCourseContent_purchase("r1")
    \/ getCourseContent_course("r1")
    \/ getCourseContent_modules("r1")
    \/ getCourseContent_lessons("r1")
    \/ requestRefund_purchase("r1")
    \/ requestRefund_pending("r1")
    \/ requestRefund_insert("r1")
    \/ requestRefund_notify("r1")
    \/ createCourse_upload("r1")
    \/ createCourse_insert("r1")
    \/ createModule_course("r1")
    \/ createModule_insert("r1")
    \/ createLesson_upload("r1")
    \/ createLesson_insert("r1")

SpecAuth == InitAuth /\ [][NextAuth]_vars

\* SpecAccounts: two clients at a time on the public account routes
\* (register, login, admin login), over the first RaceTicks ticks
InitAccounts == Init /\ ~apiInstance

NextAccounts ==
    \/ Tick /\ now < RaceTicks
    \/ \E s \in Slots : ReceivePublic(s, PublicRoutes)
    \/ \E s \in Slots : registerUser_select(s)
    \/ \E s \in Slots : registerUser_hash(s)
    \/ \E s \in Slots : registerUser_insert(s)
    \/ \E s \in Slots : loginUser_select(s)
    \/ \E s \in Slots : loginUser_compare(s)
    \/ \E s \in Slots : loginAdmin_select(s)
    \/ \E s \in Slots : loginAdmin_compare(s)

SpecAccounts == InitAccounts /\ [][NextAccounts]_vars

\* SpecCreate: one client at a time on the six routes that create a row
\* (register, purchase, refund, admin course / module / lesson), with any
\* Authorization header, at the instant of startup, until MaxWritten rows
\* have been written
CreateRoutes == {"purchase", "refund"} \cup AdminRoutes

\* the rows written since startup
Written == (Len(Users) - 1) + Len(Purchases) + Len(RefundRequests) + Created

NextCreate ==
    \/ Receive("r1", CreateRoutes)
    \/ ReceivePublic("r1", {"register"})
    \/ registerUser_select("r1")
    \/ registerUser_hash("r1")
    \/ Written < MaxWritten /\ registerUser_insert("r1")
    \/ purchaseCourse_course("r1")
    \/ Written < MaxWritten /\ purchaseCourse_insert("r1")
    \/ requestRefund_purchase("r1")
    \/ requestRefund_pending("r1")
    \/ Written < MaxWritten /\ requestRefund_insert("r1")
    \/ requestRefund_notify("r1")
    \/ createCourse_upload("r1")
    \/ Written < MaxWritten /\ createCourse_insert("r1")
    \/ createModule_course("r1")
    \/ Written < MaxWritten /\ createModule_insert("r1")
    \/ createLesson_upload("r1")
    \/ Written < MaxWritten /\ createLesson_insert("r1")

SpecCreate == InitAuth /\ [][NextCreate]_vars

\* SpecBoot: an empty database; server processes start, restart and start
\* side by side, and admin logins are served once the admin record exists
\* (a server listens only after initializeDatabase has returned), over the
\* first RaceTicks ticks
InitBoot ==
    /\ now = 0
    /\ apiInstance = FALSE
    /\ Admins = <<>>
    /\ Users = <<>>
    /\ Courses = <<>>
    /\ Modules = <<>>
    /\ Lessons = <<>>
    /\ Purchases = <<>>
    /\ RefundRequests = <<>>
    /\ assets = {}
    /\ outbox = EmptyBag
    /\ reqs = [s \in Slots |-> Idle]

NextBoot ==
    \/ Tick /\ now < RaceTicks
    \/ \E s \in Slots : startServer(s)
    \/ \E s \in Slots : initializeDatabase_select(s)
    \/ \E s \in Slots : initializeDatabase_hash(s)
    \/ \E s \in Slots : initializeDatabase_insert(s)
    \/ \E s \in Slots : Admins # <<>> /\ ReceivePublic(s, {"adminLogin"})
    \/ \E s \in Slots : loginAdmin_select(s)
    \/ \E s \in Slots : loginAdmin_compare(s)

SpecBoot == InitBoot /\ [][NextBoot]_vars

\* ----------------------------------------------------------- properties
\* C1: in every reachable state the Purchases table holds at most one row
\* per (user, course) pair, whatever the interleaving of purchase requests
C1_OnePurchasePerPair ==
    \A i, j \in Ids(Purchases) :
        (/\ Purchases[i].user_id = Purchases[j].user_id
         /\ Purchases[i].course_id = Purchases[j].course_id) => i = j

\* two purchase requests have both been answered, one with 201 and one with
\* the duplicate outcome
C1_Witness ==
    /\ Req("r1").route = "purchase" /\ Req("r1").status = 201
    /\ Req("r2").route = "purchase" /\ Req("r2").status = 409
    /\ Len(Purchases) = 1

\* C2: while a Purchases row exists for (user, course), a purchase request of
\* that user for that course can only end with 409, and no step changes an
\* existing row or adds a second row for the pair
C2_DuplicatePurchaseIs409 ==
    [][\A s \in Slots :
         LET u == Req(s).userId
             c == Req(s).courseId
         IN (/\ Req(s).route = "purchase"
             /\ InFlight(s)
             /\ RowsOf(Purchases, u, c) # {})
            => /\ reqs'[s].pc = "done" => reqs'[s].status = 409
               /\ RowsOf(Purchases', u, c) = RowsOf(Purchases, u, c)
               /\ \A i \in RowsOf(Purchases, u, c) : Purchases'[i] = Purchases[i]
               /\ reqs'[s].wrote = FALSE]_vars

\* a purchase request was answered 409 for a row written at an earlier instant
C2_Witness ==
    \E s \in Slots :
        /\ Req(s).route = "purchase" /\ Req(s).status = 409
        /\ Len(Purchases) = 1 /\ Purchases[1].purchase_date < now

\* C3 (as claimed): at most one RefundRequests row with status PENDENTE per
\* (user, course) in every reachable state
C3_OnePendingPerPair ==
    \A i, j \in Ids(RefundRequests) :
        (/\ RefundRequests[i].user_id = RefundRequests[j].user_id
         /\ RefundRequests[i].course_id = RefundRequests[j].course_id
         /\ RefundRequests[i].status = "PENDENTE"
         /\ RefundRequests[j].status = "PENDENTE") => i = j

\* the refund window of a purchase has elapsed: more than 7 days lie between
\* the purchase and now
WindowElapsed(purchaseDate) ==
    Abs(now - purchaseDate) > RefundWindowDays * TicksPerDay

\* a refund request of slot s for a purchased course stands at one of its
\* two checks (the step is its own when reqs'[s] # reqs[s])
AtRefundCheck(s) ==
    /\ Req(s).route = "refund"
    /\ Req(s).pc \in {"selPurchase", "selPending"}
    /\ RowsOf(Purchases, Req(s).userId, Req(s).courseId) # {}

PurchaseDateOf(s) ==
    Purchases[CHOOSE i \in RowsOf(Purchases, Req(s).userId, Req(s).courseId) : TRUE].purchase_date

\* a rejection of slot s in this step leaves RefundRequests and the outbox alone
RejectedWithoutEffect(s) ==
    (reqs'[s].pc = "done" /\ reqs'[s].status \in {403, 409})
    => /\ ~reqs'[s].wrote /\ ~reqs'[s].sent
       /\ RefundRequests' = RefundRequests /\ outbox' = outbox

\* C4 (as claimed): a refund request for a purchased course ends with 409
\* whenever a PENDENTE row exists for the pair and with 403 whenever the
\* window has elapsed, inserting no row and sending no mail
C4_AsClaimed ==
    [][\A s \in Slots :
         (AtRefundCheck(s) /\ reqs'[s] # reqs[s]) =>
            /\ PendingRows(Req(s).userId, Req(s).courseId) # {}
                 => /\ reqs'[s].pc = "done" => reqs'[s].status = 409
                    /\ Req(s).pc = "selPending" => reqs'[s].pc = "done"
            /\ (Req(s).pc = "selPurchase" /\ WindowElapsed(PurchaseDateOf(s)))
                 => reqs'[s].pc = "done" /\ reqs'[s].status = 403
            /\ RejectedWithoutEffect(s)]_vars

\* C4 (amended): the window is checked first: a refund request for a
\* purchased course ends with 403 when the window has elapsed at the window
\* check, whether or not a PENDENTE row exists; it ends with 409 when the
\* window had not elapsed and a PENDENTE row exists at the pending check;
\* neither rejection inserts a row or sends a mail
C4_WindowThenPending ==
    [][\A s \in Slots :
         (AtRefundCheck(s) /\ reqs'[s] # reqs[s]) =>
            /\ Req(s).pc = "selPurchase" =>
                 IF WindowElapsed(PurchaseDateOf(s))
                 THEN reqs'[s].pc = "done" /\ reqs'[s].status = 403
                 ELSE reqs'[s].pc = "selPending"
            /\ Req(s).pc = "selPending" =>
                 IF PendingRows(Req(s).userId, Req(s).courseId) # {}
                 THEN reqs'[s].pc = "done" /\ reqs'[s].status = 409
                 ELSE reqs'[s].pc = "insRefund"
            /\ RejectedWithoutEffect(s)]_vars

\* a refund request was answered 403 while a PENDENTE row exists for its pair
C4_Witness ==
    /\ Req("r1").route = "refund" /\ Req("r1").status = 403
    /\ Len(RefundRequests) = 1 /\ RefundRequests[1].status = "PENDENTE"
    /\ ~Req("r1").wrote /\ ~Req("r1").sent

\* C5: refund eligibility is (elapsed time <= 7 days), elapsed time being
\* |now - purchase instant| (equal to ceil(elapsed / 1 day) <= 7): on the
\* dashboard isRefundEligible is exactly that and daysSincePurchase is the
\* elapsed time rounded up to whole days (1 for any elapsed time within the
\* first day, 0 only for none); the refund route answers 403 at its window
\* check exactly when it fails
C5_EligibleIffWithinSevenDays ==
    [][\A s \in Slots :
         /\ (Req(s).pc = "selPurchases" /\ reqs'[s].pc = "done") =>
              \A k \in DOMAIN reqs'[s].out :
                 LET e == reqs'[s].out[k]
                     elapsed == Abs(now - e.purchase_date)
                 IN /\ e.isRefundEligible = ~WindowElapsed(e.purchase_date)
                    /\ e.daysSincePurchase * TicksPerDay >= elapsed
                    /\ (e.daysSincePurchase - 1) * TicksPerDay < elapsed
                    /\ elapsed = 0 => e.daysSincePurchase = 0
                    /\ elapsed = 1 => e.daysSincePurchase = 1 /\ e.isRefundEligible
                    /\ elapsed = RefundWindowDays * TicksPerDay => e.isRefundEligible
                    /\ elapsed = RefundWindowDays * TicksPerDay + 1 => ~e.isRefundEligible
         /\ (AtRefundCheck(s) /\ Req(s).pc = "selPurchase" /\ reqs'[s] # reqs[s]) =>
              (reqs'[s].status = 403) = WindowElapsed(PurchaseDateOf(s))]_vars

\* a dashboard lists a purchase made one tick ago (1 day, eligible) next to
\* one made 7 days and one tick ago (8 days, not eligible)
C5_Witness ==
    /\ Req("r1").route = "dashboard" /\ Req("r1").status = 200
    /\ \E j, k \in DOMAIN Req("r1").out :
         /\ Req("r1").out[j].daysSincePurchase = 1
         /\ Req("r1").out[j].isRefundEligible
         /\ Req("r1").out[j].purchase_date # now
         /\ Req("r1").out[k].daysSincePurchase = RefundWindowDays + 1
         /\ ~Req("r1").out[k].isRefundEligible
         /\ Abs(now - Req("r1").out[k].purchase_date) = RefundWindowDays * TicksPerDay + 1

\* the lesson views a content request has produced so far
ViewsOf(r) ==
    LET modules == IF r.pc = "done" /\ r.status = 200 THEN r.out.modules
                   ELSE IF r.pc = "cLessons" THEN r.loc.modules
                   ELSE <<>>
    IN UNION {{modules[k].lessons[j] : j \in DOMAIN modules[k].lessons} :
                k \in {i \in DOMAIN modules : "lessons" \in DOMAIN modules[i]}}

ContentSlots == {s \in Slots : Req(s).route = "content"}

\* C6: a lesson with dripDays >= 0 of a purchased course is returned in full
\* (isReleased = TRUE, its video URL, its description, its links decoded) if
\* and only if the request instant is at or after purchase instant + dripDays
\* days, and in the redacted shape with isReleased = FALSE otherwise; every
\* lesson of the module is returned, and the tree sent is the one built
C6_ReleasedIffDripElapsed ==
    [][\A s \in ContentSlots :
         (Req(s).pc = "cLessons" /\ reqs'[s] # reqs[s]) =>
            LET k == Req(s).loc.k
                m == Req(s).loc.modules[k].id
                P == Purchases[CHOOSE i \in PurchaseRows(Req(s).userId, Req(s).param) : TRUE].purchase_date
                built == IF reqs'[s].pc = "done" THEN reqs'[s].out.modules
                         ELSE reqs'[s].loc.modules
                views == built[k].lessons
            IN /\ \A i \in 1..(k - 1) : built[i] = Req(s).loc.modules[i]
               /\ {views[j].id : j \in DOMAIN views}
                    = {l \in Ids(Lessons) : Lessons[l].module_id = m}
               /\ Len(views) = Cardinality({l \in Ids(Lessons) : Lessons[l].module_id = m})
               /\ \A j \in DOMAIN views :
                    LET e == views[j]
                        L == Lessons[e.id]
                    IN L.drip_days >= 0 =>
                         IF now >= P + L.drip_days * TicksPerDay
                         THEN /\ e.isReleased
                              /\ e.title = L.title
                              /\ e.video_url = L.video_url
                              /\ e.description_text = L.description_text
                              /\ e.links = IF L.links = Null THEN Null ELSE LinksOf(e.id)
                         ELSE /\ ~e.isReleased
                              /\ "video_url" \notin DOMAIN e]_vars

\* a content response, sent exactly one day after the purchase, shows a
\* lesson of delay 1 in full with its links decoded and hides another lesson
C6_Witness ==
    /\ Req("r1").route = "content" /\ Req("r1").status = 200
    /\ now = Purchases[1].purchase_date + TicksPerDay
    /\ \E e, h \in ViewsOf(Req("r1")) :
         /\ e.isReleased /\ e.drip_days = 1 /\ e.links = LinksOf(e.id)
         /\ ~h.isReleased

\* C7: a lesson view with isReleased = FALSE carries exactly id, title, order
\* position, the release date, a null video URL, null links and the
\* placeholder description, so nothing of the stored video URL, description
\* or links; and every lesson shown in full is released for the purchase
C7_HiddenLessonIsRedacted ==
    \A s \in ContentSlots :
        \A e \in ViewsOf(Req(s)) :
            LET L == Lessons[e.id]
                P == Purchases[1].purchase_date
            IN IF e.isReleased
               THEN now >= P + L.drip_days * TicksPerDay
               ELSE /\ DOMAIN e = {"id", "title", "order_index", "isReleased",
                                   "releaseDate", "videoUrl", "descriptionText", "links"}
                    /\ e.title = L.title /\ e.order_index = L.order_index
                    /\ e.releaseDate = (P + L.drip_days * TicksPerDay) \div TicksPerDay
                    /\ e.videoUrl = Null /\ e.links = Null
                    /\ e.descriptionText = Placeholder
                    /\ \A f \in {"videoUrl", "descriptionText", "links"} :
                         e[f] \notin {L.video_url, L.description_text, L.links, LinksOf(e.id)} \ {Null}

\* a content response hides a lesson that has a video, a description and links
C7_Witness ==
    /\ Req("r1").route = "content" /\ Req("r1").status = 200
    /\ \E e \in ViewsOf(Req("r1")) :
         /\ ~e.isReleased
         /\ Lessons[e.id].links # Null /\ Lessons[e.id].video_url # Null

\* C8: the purchase is checked before the course: without a Purchases row the
\* request ends with 403 at its first lookup, whether or not the course
\* exists; 404 is answered only with a Purchases row and no course; modules
\* and lessons are read only with a Purchases row and an existing course
C8_PurchaseBeforeCourse ==
    [][\A s \in ContentSlots :
         LET purchased == PurchaseRows(Req(s).userId, Req(s).param) # {}
             exists == Req(s).param \in Ids(Courses)
         IN /\ (Req(s).pc = "cPurchase" /\ reqs'[s] # reqs[s]) =>
                 IF purchased THEN reqs'[s].pc = "cCourse"
                 ELSE reqs'[s].pc = "done" /\ reqs'[s].status = 403
            /\ (InFlight(s) /\ reqs'[s].pc = "done" /\ reqs'[s].status = 404) =>
                 purchased /\ ~exists
            /\ Req(s).pc = "cCourse" => purchased
            /\ Req(s).pc \in {"cModules", "cLessons"} => purchased /\ exists
            /\ reqs'[s].pc \in {"cModules", "cLessons"} => Req(s).pc \in {"cCourse", "cModules", "cLessons"}]_vars

\* a user with a valid token and no purchase asked for the content of a
\* course that does not exist, and got 403
C8_Witness ==
    /\ Req("r1").route = "content" /\ Req("r1").status = 403
    /\ Req("r1").auth = "valid" /\ Req("r1").ran
    /\ Req("r1").param \notin Ids(Courses)

\* C9: on every protected route a request without a token is answered 401
\* and a request whose token has a bad signature or has expired is answered
\* 403, at once: the controller is not entered, the request inserts no row
\* and has no mail sent, and no table, stored file or mail changes
C9_RejectedBeforeController ==
    [][\A s \in Slots :
         (reqs'[s] # reqs[s] /\ reqs'[s].auth \in {"missing", "badsig", "expired"}) =>
            /\ reqs'[s].route \in UserRoutes \cup AdminRoutes
            /\ reqs'[s].pc = "done"
            /\ reqs'[s].status = IF reqs'[s].auth = "missing" THEN 401 ELSE 403
            /\ ~reqs'[s].ran /\ ~reqs'[s].wrote /\ ~reqs'[s].sent
            /\ reqs'[s].userType = "none"
            /\ UNCHANGED <<tables, assets, outbox>>]_vars

\* a refund request with an expired token was answered 403 without entering
\* the controller, while the user's purchase is on record
C9_Witness ==
    /\ Req("r1").route = "refund" /\ Req("r1").auth = "expired"
    /\ Req("r1").status = 403 /\ ~Req("r1").ran
    /\ PurchaseRows(1, 1) # {}

\* C10: createCourse, createModule and createLesson run only for a request
\* whose token was verified and decoded to the admin role; on an admin route
\* the token is verified before the role is looked at (no token is 401, an
\* unverified token never reaches the role check); a valid user-role token
\* is answered 403 without entering the controller; and a Courses, Modules
\* or Lessons row or a stored file is added only by a step of an admin-role
\* request inside one of the three controllers
C10_AdminRoutesNeedAdminRole ==
    [][/\ \A s \in Slots :
            (reqs'[s] # reqs[s] /\ reqs'[s].route \in AdminRoutes) =>
               /\ reqs'[s].ran => reqs'[s].auth = "valid" /\ reqs'[s].userType = "admin"
               /\ reqs'[s].auth = "missing" => reqs'[s].status = 401
               /\ reqs'[s].auth # "valid" => reqs'[s].userType = "none"
               /\ (reqs'[s].auth = "valid" /\ reqs'[s].userType = "user") =>
                     /\ reqs'[s].pc = "done" /\ reqs'[s].status = 403
                     /\ ~reqs'[s].ran /\ ~reqs'[s].wrote
                     /\ UNCHANGED <<Courses, Modules, Lessons, assets>>
       /\ (Courses' # Courses \/ Modules' # Modules \/ Lessons' # Lessons \/ assets' # assets) =>
             \E s \in Slots :
                /\ reqs'[s] # reqs[s]
                /\ Req(s).route \in AdminRoutes /\ InFlight(s) /\ Req(s).ran
                /\ Req(s).auth = "valid" /\ Req(s).userType = "admin"]_vars

\* after an admin has published a second course, the same request sent with
\* a valid user token is answered 403 and the controller is not entered
C10_Witness ==
    /\ Req("r1").route = "adminCourse" /\ Req("r1").auth = "valid"
    /\ Req("r1").userType = "user" /\ Req("r1").status = 403 /\ ~Req("r1").ran
    /\ Len(Courses) = 2 /\ assets # {}

\* C11: the user routes are served only for a valid user-role token: a
\* Purchases or RefundRequests row is never added by a step of a request
\* whose token has role admin
C11_NoRowForAdminToken ==
    [][(Purchases' # Purchases \/ RefundRequests' # RefundRequests) =>
          \E s \in Slots :
             /\ reqs'[s] # reqs[s] /\ Req(s).route \in UserRoutes
             /\ Req(s).auth = "valid" /\ Req(s).userType = "user"]_vars

\* the records of a table whose identity and stored hash match the submitted
\* identity and password
Matching(table, key, identity, password) ==
    {i \in Ids(table) : table[i][key] = identity /\ Compare(password, table[i].password_hash)}

\* the token a login of subject i with the given role and lifetime issues now
TokenFor(i, role, days) ==
    [present |-> TRUE, sig |-> TRUE, id |-> i, type |-> role,
     exp |-> now + days * TicksPerDay]

\* C12: a login answers with a token only when the submitted password matches
\* the stored hash of an existing record: with an unknown identity or a wrong
\* password the answer is 401 without a token; loginUser issues a token of
\* role user, 7 days, with the matched user's id; loginAdmin a token of role
\* admin, 1 day, with the matched admin's id; no other answer of the account
\* routes carries a token
C12_TokenOnlyAfterVerification ==
    [][\A s \in Slots :
         (reqs'[s] # reqs[s] /\ reqs'[s].pc = "done" /\ reqs'[s].route \in PublicRoutes) =>
            LET r == Req(s)
                q == reqs'[s]
            IN IF r.pc \in {"selUser", "cmpUser"}
               THEN LET match == Matching(Users, "email", r.loc.email, r.loc.password)
                    IN IF match = {} THEN q.status = 401 /\ q.out = <<>>
                       ELSE /\ q.status = 200 /\ q.out.type = "user"
                            /\ \E i \in match : q.out.token = TokenFor(i, "user", 7)
               ELSE IF r.pc \in {"selAdmin", "cmpAdmin"}
               THEN LET match == Matching(Admins, "username", r.loc.username, r.loc.password)
                    IN IF match = {} THEN q.status = 401 /\ q.out = <<>>
                       ELSE /\ q.status = 200 /\ q.out.type = "admin"
                            /\ \E i \in match : q.out.token = TokenFor(i, "admin", 1)
               ELSE q.status # 200 /\ q.out = <<>>]_vars

\* the user registered during the run has logged in and holds a token with
\* id 2, while the other client's login with a wrong password got 401
C12_Witness ==
    /\ Req("r1").route = "login" /\ Req("r1").status = 200
    /\ Req("r1").out.token.id = 2 /\ Req("r1").out.token.type = "user"
    /\ Req("r2").route \in {"login", "adminLogin"} /\ Req("r2").status = 401

\* C13: no two Users rows share an email, and a registerUser request that
\* ends while its email is already registered, whether it was registered
\* before the request or by a concurrent one, is answered 409 and adds no row
C13_DuplicateEmailIs409 ==
    [][/\ \A i, j \in Ids(Users') : i # j => Users'[i].email # Users'[j].email
       /\ \A s \in Slots :
            ( /\ Req(s).route = "register" /\ InFlight(s)
              /\ reqs'[s] # reqs[s] /\ reqs'[s].pc = "done"
              /\ \E i \in Ids(Users) : Users[i].email = Req(s).loc.email ) =>
               reqs'[s].status = 409 /\ Users' = Users]_vars

\* C14: a refund request that has inserted its row ends with 200 only when
\* the notification mail was accepted; whenever the notification step ends
\* without a mail accepted the request ends with 500, and the row inserted
\* just before stays in RefundRequests with status PENDENTE
C14_NotificationFailureIs500 ==
    [][\A s \in Slots :
         ( /\ Req(s).route = "refund" /\ Req(s).pc \in {"insRefund", "notify"}
           /\ reqs'[s] # reqs[s] /\ reqs'[s].pc = "done" /\ reqs'[s].wrote ) =>
            /\ PendingIn(RefundRequests', Req(s).userId, Req(s).courseId) # {}
            /\ IF outbox' # outbox THEN reqs'[s].status = 200
               ELSE reqs'[s].status = 500]_vars

\* a required field of the operation is absent from the body
MissingRequired(route, body) ==
    IF route = "register"
    THEN body.name = Null \/ body.email = Null \/ body.password = Null
    ELSE IF route = "purchase" THEN body.courseId = 0
    ELSE IF route = "refund" THEN body.courseId = 0 \/ body.message = ""
    ELSE IF route = "adminCourse"
    THEN body.name = "" \/ body.description = "" \/ body.price = "" \/ body.file = NoFile
    ELSE IF route = "adminModule"
    THEN body.courseId = 0 \/ body.name = "" \/ body.orderIndex = Undefined
    ELSE \/ body.moduleId = 0 \/ body.title = Null
         \/ body.dripDays = Undefined \/ body.orderIndex = Undefined

\* a request of the route as its controller is entered by a caller of the
\* role the route is meant for
Entered(route) ==
    [Idle EXCEPT !.route = route,
                 !.auth = IF route = "register" THEN "none" ELSE "valid",
                 !.userId = IF route = "register" THEN 0 ELSE 1,
                 !.userType = IF route = "register" THEN "none"
                              ELSE IF route \in AdminRoutes THEN "admin" ELSE "user"]

\* C15: a create operation that answers in the step in which the request
\* arrives answers 400; whenever one of the six lets a request past its
\* validation, every body of that operation that lacks a required field is
\* one it answers with 400 on arrival; the arrival step changes no table,
\* stored file or mail; and every step that does change one belongs to a
\* request that was let past the validation
C15_RequiredFieldsBeforeWrite ==
    [][/\ \A s \in Slots :
            (~InFlight(s) /\ reqs'[s] # reqs[s] /\ reqs'[s].ran) =>
               IF reqs'[s].pc = "done"
               THEN reqs'[s].status = 400 /\ ~reqs'[s].wrote
               ELSE \A body \in {b \in Bodies(reqs'[s].route) :
                                     MissingRequired(reqs'[s].route, b)} :
                       LET q == Controller(reqs'[s].route, Entered(reqs'[s].route), body)
                       IN q.pc = "done" /\ q.status = 400 /\ ~q.wrote
       /\ \A s \in Slots :
            (~InFlight(s) /\ reqs'[s] # reqs[s]) => UNCHANGED <<tables, assets, outbox>>
       /\ (tables' # tables \/ assets' # assets \/ outbox' # outbox) =>
             \E s \in Slots : InFlight(s) /\ reqs'[s] # reqs[s] /\ Req(s).ran]_vars

\* after a second course was published, a createModule request without its
\* order index was answered 400 and the tables are as they were
C15_Witness ==
    /\ Req("r1").route = "adminModule" /\ Req("r1").status = 400 /\ Req("r1").ran
    /\ Len(Courses) = 2 /\ Modules = <<>>

\* C16: at one instant and for one purchase, the dashboard marks the
\* purchase isRefundEligible exactly when the gate of requestRefund does not
\* answer the window-expired 403: checked at every dashboard answer against
\* the gate, and at every gate decision against the dashboard's annotation
C16_DashboardAgreesWithGate ==
    [][\A s \in Slots :
         /\ (Req(s).pc = "selPurchases" /\ reqs'[s] # reqs[s]) =>
               \A k \in DOMAIN reqs'[s].out :
                  reqs'[s].out[k].isRefundEligible
                     <=> RefundWindow(Req(s), reqs'[s].out[k].purchase_date).status # 403
         /\ (Req(s).pc = "selPurchase" /\ reqs'[s] # reqs[s]) =>
               \A i \in PurchaseRows(Req(s).userId, Req(s).courseId) :
                  coursesWithRefundStatus(i).isRefundEligible
                     <=> ~(reqs'[s].pc = "done" /\ reqs'[s].status = 403)]_vars

\* seven days and one tick after the purchase of course 1 a refund request
\* was answered 403, while course 2, bought just now, is inside its window
C16_Witness ==
    /\ Req("r1").route = "refund" /\ Req("r1").status = 403 /\ Req("r1").ran
    /\ now = Purchases[1].purchase_date + RefundWindowDays * TicksPerDay + 1
    /\ Purchases[2].purchase_date = now

\* C17: whatever runs of initializeDatabase have happened (first start,
\* restarts, two processes starting side by side), Admins never holds more
\* than one record with username adm123, a record once created is neither
\* duplicated nor modified, and when a run ends Admins holds exactly the one
\* bootstrap record
C17_OneBootstrapAdmin ==
    [][/\ Cardinality({i \in Ids(Admins') : Admins'[i].username = "adm123"}) <= 1
       /\ Admins # <<>> => Admins' = Admins
       /\ \A s \in Slots :
            (Req(s).route = "boot" /\ InFlight(s) /\ reqs'[s].pc = "done") =>
               Admins' = <<[username |-> "adm123", password_hash |-> Hash("adm123")]>>]_vars

\* a restart has found the admin record in place and added nothing, and the
\* admin has logged in with adm123 / adm123
C17_Witness ==
    /\ Req("r1").route = "boot" /\ Req("r1").pc = "done" /\ Req("r1").status = 0
    /\ ~Req("r1").wrote /\ Len(Admins) = 1
    /\ Req("r2").route = "adminLogin" /\ Req("r2").status = 200

\* C18: when the upload awaited by createCourse or createLesson stores no
\* file, the request ends there with 500 and no row is written; when it
\* stores one, the request carries on with the URL of exactly that file;
\* and the Courses or Lessons row such a request inserts holds that URL
\* (a lesson created without a file holds an empty video URL)
C18_UploadFailureIs500 ==
    [][\A s \in Slots :
         /\ (Req(s).pc \in {"upImage", "upVideo"} /\ reqs'[s] # reqs[s]) =>
               /\ UNCHANGED tables
               /\ IF assets' = assets
                  THEN reqs'[s].pc = "done" /\ reqs'[s].status = 500 /\ ~reqs'[s].wrote
                  ELSE /\ Cardinality(assets' \ assets) = 1
                       /\ reqs'[s].pc = "done"
                            \/ (IF Req(s).pc = "upImage" THEN reqs'[s].loc.imageUrl
                                 ELSE reqs'[s].loc.videoUrl) \in assets' \ assets
         /\ (Req(s).pc = "insCourse" /\ reqs'[s] # reqs[s]) =>
               /\ Len(Courses') = Len(Courses) + 1
               /\ Courses'[Len(Courses')].image_url = Req(s).loc.imageUrl
               /\ Req(s).loc.imageUrl \in assets
         /\ (Req(s).pc = "insLesson" /\ reqs'[s] # reqs[s] /\ Lessons' # Lessons) =>
               /\ Lessons'[Len(Lessons')].video_url = Req(s).loc.videoUrl
               /\ Req(s).loc.videoUrl \in assets \cup {Null}
         /\ (Courses' # Courses \/ Lessons' # Lessons) =>
               \E t \in Slots : Req(t).pc \in {"insCourse", "insLesson"} /\ reqs'[t] # reqs[t]]_vars

\* a course was published with the URL of its stored cover, and a later
\* createCourse whose upload failed was answered 500 and added no row
C18_Witness ==
    /\ Req("r1").route = "adminCourse" /\ Req("r1").status = 500 /\ ~Req("r1").wrote
    /\ Len(Courses) = 2 /\ Courses[2].image_url \in assets

\* C19: every RefundRequests row has a Purchases row of the same user and
\* course; a refund request for a pair without a purchase is answered 404 and
\* inserts nothing; a request gets past its purchase lookup only with a
\* purchase inside the 7-day window, reaches the INSERT only through that
\* lookup, and only such a request adds a RefundRequests row
C19_RefundHasPurchase ==
    [][/\ \A i \in Ids(RefundRequests') :
            RowsOf(Purchases', RefundRequests'[i].user_id, RefundRequests'[i].course_id) # {}
       /\ \A s \in Slots :
            /\ (Req(s).pc = "selPurchase" /\ reqs'[s] # reqs[s]) =>
                  /\ RefundRequests' = RefundRequests
                  /\ IF PurchaseRows(Req(s).userId, Req(s).courseId) = {}
                     THEN reqs'[s].pc = "done" /\ reqs'[s].status = 404
                     ELSE IF WindowElapsed(PurchaseDateOf(s))
                     THEN reqs'[s].pc = "done" /\ reqs'[s].status = 403
                     ELSE reqs'[s].pc = "selPending"
            /\ (reqs'[s] # reqs[s] /\ reqs'[s].pc = "selPending") => Req(s).pc = "selPurchase"
            /\ (reqs'[s] # reqs[s] /\ reqs'[s].pc = "insRefund") => Req(s).pc = "selPending"
       /\ RefundRequests' # RefundRequests =>
            \E s \in Slots :
               /\ Req(s).pc = "insRefund" /\ reqs'[s] # reqs[s]
               /\ PurchaseRows(Req(s).userId, Req(s).courseId) # {}
               /\ RefundRequests' = Append(RefundRequests,
                      [user_id |-> Req(s).userId, course_id |-> Req(s).courseId,
                       message |-> Req(s).message, status |-> "PENDENTE"])]_vars

\* with a refund request of user 1 for course 1 on record, a refund request
\* for a course the user never bought was answered 404 and added nothing
C19_Witness ==
    /\ Req("r1").route = "refund" /\ Req("r1").status = 404 /\ ~Req("r1").wrote
    /\ Len(RefundRequests) = 1 /\ PurchaseRows(1, 1) # {}

\* C20: no step changes or removes a RefundRequests row, so its status stays
\* PENDENTE; a refund request that finds a row of its (user, course) pair is
\* never answered 404, is answered 403 only outside the 7-day window and 409
\* inside it, inserts nothing and sends nothing; a notification is sent only
\* by the request that inserted the one row of the pair, so a retry after a
\* failed notification never sends it
C20_PendingForever ==
    [][/\ Len(RefundRequests') >= Len(RefundRequests)
       /\ \A i \in Ids(RefundRequests) :
            /\ RefundRequests'[i] = RefundRequests[i]
            /\ RefundRequests'[i].status = "PENDENTE"
       /\ \A s \in Slots :
            (/\ reqs'[s] # reqs[s]
             /\ Req(s).pc \in {"selPurchase", "selPending"}
             /\ RowsOf(RefundRequests, Req(s).userId, Req(s).courseId) # {}) =>
                /\ RefundRequests' = RefundRequests /\ outbox' = outbox
                /\ ~reqs'[s].wrote /\ ~reqs'[s].sent
                /\ IF Req(s).pc = "selPending"
                   THEN reqs'[s].pc = "done" /\ reqs'[s].status = 409
                   ELSE IF WindowElapsed(PurchaseDateOf(s))
                   THEN reqs'[s].pc = "done" /\ reqs'[s].status = 403
                   ELSE reqs'[s].pc = "selPending"
       /\ outbox' # outbox =>
            \E s \in Slots :
               /\ Req(s).pc = "notify" /\ Req(s).wrote /\ reqs'[s].sent
               /\ Cardinality(RowsOf(RefundRequests, Req(s).userId, Req(s).courseId)) = 1
               /\ BagCardinality(outbox) = 0]_vars

\* with a mail client configured, the request that inserted the row was
\* answered after its notification failed (no mail went out), and the retry
\* for the same pair was answered 409 without sending anything
C20_Witness ==
    /\ apiInstance /\ outbox = EmptyBag
    /\ Len(RefundRequests) = 1 /\ PendingRows(1, 1) # {}
    /\ Req("r1").route = "refund" /\ Req("r1").pc = "done"
    /\ Req("r1").status = 409 /\ ~Req("r1").sent

====
